---- MODULE Spec2Model ----
(***************************************************************************)
(* Model of the MindMate emotion backend: the HuggingFace proxy with its   *)
(* sliding-window rate limiter (backend/app_new_clean.py), the local-model *)
(* service with its TTL cache and rule-based fallback (backend/main.py)    *)
(* and the rule-based scoring of backend/app.py.                           *)
(*                                                                         *)
(* Texts and labels are TLA+ strings; TLC evaluates Len, \o, Head, Tail    *)
(* and SubSeq on them, so the string operations of the code are modelled   *)
(* character by character.  Confidences and scores are integers in         *)
(* thousandths (0.5 is 500).  Time is in whole seconds.                    *)
(***************************************************************************)
EXTENDS Integers, Sequences, FiniteSets, TLC

VARIABLES
    now,                \* the wall clock read by datetime.now() / the cache timer
    hf_key,             \* app_new_clean: HUGGINGFACE_API_KEY is configured
    rate_limit_cache,   \* app_new_clean: client ip -> list of admitted timestamps
    gemini_key,         \* app_new_clean: GEMINI_API_KEY is configured
    openrouter_key,     \* app_new_clean: OPENROUTER_API_KEY is configured
    in_flight,          \* app_new_clean: detection requests not yet answered
    TRANSFORMERS_AVAILABLE, \* main: the transformers import succeeded
    models,             \* main: which pipelines are loaded (FALSE is None)
    emotion_cache,      \* main: the TTLCache, least recently used entry first
    message_cache,      \* main: "type:emotion" -> the message served for it
    resp                \* the request served last and the response it got

cleanVars == <<hf_key, rate_limit_cache, gemini_key, openrouter_key, in_flight>>
mainVars == <<TRANSFORMERS_AVAILABLE, models, emotion_cache, message_cache>>
vars == <<now, cleanVars, mainVars, resp>>

\* in_flight: how many detection requests were received and have not run
\* yet, and the admission times of those suspended at the await of the API
NoRequests == [queued |-> 0, awaiting |-> <<>>]

(***************************************************************************)
(* Bounds of the model.                                                    *)
(***************************************************************************)
MaxTimeClean == 60      \* SpecClean: the clock stops advancing here
MaxTimeRate == 122      \* SpecRate: the clock stops advancing here
MaxTimeMain == 3601     \* SpecMain: the clock stops advancing here
MaxFill == 1001         \* SpecFill: how many distinct texts are sent
MaxBatch == 2           \* longest batch request explored
MaxTimePair == 60       \* SpecPair: the clock stops advancing here
MaxTimeBatch == 3600    \* SpecBatch: the clock stops advancing here
MaxBatchBig == 51       \* SpecBatch: longest batch request explored
MaxTimeConc == 60       \* SpecConc: the clock stops advancing here
MaxQueued == 2          \* SpecConc: requests received whose handler has not run yet
MaxInFlight == 3        \* SpecConc: requests suspended at the await at one time

(***************************************************************************)
(* Python string and list helpers.                                         *)
(***************************************************************************)
UpperChars == "ABCDEFGHIJKLMNOPQRSTUVWXYZ"
LowerChars == "abcdefghijklmnopqrstuvwxyz"

CharAt(s, i) == SubSeq(s, i, i)

lower_char(c) ==
    IF \E i \in 1..Len(UpperChars) : CharAt(UpperChars, i) = c
    THEN CharAt(LowerChars, CHOOSE i \in 1..Len(UpperChars) : CharAt(UpperChars, i) = c)
    ELSE c

RECURSIVE lower(_)
lower(s) == IF Len(s) = 0 THEN "" ELSE lower_char(Head(s)) \o lower(Tail(s))

\* dict.get(key, default)
DictGet(d, k, default) == IF k \in DOMAIN d THEN d[k] ELSE default

\* max(items, key=score): the first item holding the greatest score
MaxByScore(items) ==
    LET best == CHOOSE i \in 1..Len(items) :
                    /\ \A j \in 1..Len(items) : items[j].score <= items[i].score
                    /\ \A j \in 1..(i - 1) : items[j].score < items[i].score
    IN  items[best]

(***************************************************************************)
(* The request served last and its response, as a client and the external  *)
(* services see them.                                                      *)
(*   status    the HTTP status of the response                             *)
(*   body      <<>> for an error, else the result(s) returned              *)
(*   calls     how many times the external / ML classifier was invoked     *)
(*   admitted  the verdict of the rate limiter, "unchecked" if never asked *)
(*   served    "short", "cache", "computed", "throttled" or "error"        *)
(***************************************************************************)
Response(endpoint, client, text, pref, adapter, status, body, calls, admitted, served) ==
    [endpoint |-> endpoint, client |-> client, text |-> text, pref |-> pref,
     adapter |-> adapter, status |-> status, body |-> body, calls |-> calls,
     admitted |-> admitted, served |-> served]

NoResp == Response("none", "", "", "", "none", 0, <<>>, 0, "unchecked", "none")

(***************************************************************************)
(* backend/app_new_clean.py                                                *)
(***************************************************************************)
RATE_LIMIT_WINDOW == 60
RATE_LIMIT_MAX_CALLS == 30

Clients == {"10.0.0.1"}

EMOTION_MAPPING ==
    [k \in {"LABEL_0", "LABEL_1", "LABEL_2", "LABEL_3", "LABEL_4", "LABEL_5",
            "sadness", "joy", "love", "anger", "fear", "surprise", "neutral"} |->
        CASE k = "LABEL_0" -> "sadness"
          [] k = "LABEL_1" -> "joy"
          [] k = "LABEL_2" -> "love"
          [] k = "LABEL_3" -> "anger"
          [] k = "LABEL_4" -> "fear"
          [] k = "LABEL_5" -> "surprise"
          [] OTHER -> k]

\* "Clean old entries": the timestamps newer than cutoff; the variant keeps
\* the timestamp that is exactly at the cutoff
PruneKeepsCutoff(window, cutoff) == SelectSeq(window, LAMBDA timestamp : timestamp >= cutoff)
Prune(window, cutoff) == SelectSeq(window, LAMBDA timestamp : timestamp > cutoff)

\* "Check if under limit"; the variant lets one call too many through
OverLimitOffByOne(window) == Len(window) > RATE_LIMIT_MAX_CALLS
OverLimit(window) == Len(window) >= RATE_LIMIT_MAX_CALLS

\* check_rate_limit(client_ip): the value returned and the cache it leaves;
\* one variant records the refused call too, one stores the list without
\* pruning it, one works on a list that lacks the calls of the requests
\* still in flight, one keeps one window for all clients
check_rate_limit_recording(client_ip) ==
    LET cutoff == now - RATE_LIMIT_WINDOW
        pruned == Prune(rate_limit_cache[client_ip], cutoff)
    IN  [admit |-> ~OverLimit(pruned),
         cache |-> [rate_limit_cache EXCEPT ![client_ip] = Append(pruned, now)]]
check_rate_limit_unpruned(client_ip) ==
    LET cutoff == now - RATE_LIMIT_WINDOW
        pruned == Prune(rate_limit_cache[client_ip], cutoff)
    IN  IF OverLimit(pruned)
        THEN [admit |-> FALSE, cache |-> rate_limit_cache]
        ELSE [admit |-> TRUE,
              cache |-> [rate_limit_cache EXCEPT ![client_ip] = Append(@, now)]]
check_rate_limit_racing(client_ip) ==
    LET cutoff == now - RATE_LIMIT_WINDOW
        pruned == Prune(rate_limit_cache[client_ip], cutoff)
        unseen == IF Len(pruned) < Len(in_flight.awaiting) THEN Len(pruned)
                  ELSE Len(in_flight.awaiting)
        stale == SubSeq(pruned, 1, Len(pruned) - unseen)
    IN  IF OverLimit(stale)
        THEN [admit |-> FALSE,
              cache |-> [rate_limit_cache EXCEPT ![client_ip] = stale]]
        ELSE [admit |-> TRUE,
              cache |-> [rate_limit_cache EXCEPT ![client_ip] = Append(stale, now)]]
check_rate_limit_shared(client_ip) ==
    LET cutoff == now - RATE_LIMIT_WINDOW
        pruned == Prune(rate_limit_cache[client_ip], cutoff)
    IN  IF OverLimit(pruned)
        THEN [admit |-> FALSE,
              cache |-> [c \in DOMAIN rate_limit_cache |-> pruned]]
        ELSE [admit |-> TRUE,
              cache |-> [c \in DOMAIN rate_limit_cache |-> Append(pruned, now)]]
check_rate_limit(client_ip) ==
    LET cutoff == now - RATE_LIMIT_WINDOW
        pruned == Prune(rate_limit_cache[client_ip], cutoff)
    IN  IF OverLimit(pruned)
        THEN [admit |-> FALSE,
              cache |-> [rate_limit_cache EXCEPT ![client_ip] = pruned]]
        ELSE [admit |-> TRUE,
              cache |-> [rate_limit_cache EXCEPT ![client_ip] = Append(pruned, now)]]

(***************************************************************************)
(* What the HuggingFace inference API can answer to one POST.              *)
(*   ok        status 200 and a JSON list of {label, score}                *)
(*   empty     status 200 and a JSON body that is no non-empty list        *)
(*   status    a non-200 status                                            *)
(*   timeout   httpx.TimeoutException                                      *)
(*   error     any other exception of the client                           *)
(***************************************************************************)
HFLabels == {"joy", "disgust", "LABEL_0"}

HFOutcomes ==
    {[kind |-> "ok", emotions |-> <<[label |-> l, score |-> 900]>>] : l \in HFLabels}
    \cup {[kind |-> "ok",
           emotions |-> <<[label |-> "anger", score |-> 300],
                          [label |-> "surprise", score |-> 600],
                          [label |-> "fear", score |-> 600]>>]}
    \cup {[kind |-> k, emotions |-> <<>>] : k \in {"empty", "status", "timeout", "error"}}

\* "Map to standard emotions"
MapLabel(emotion_label) == DictGet(EMOTION_MAPPING, emotion_label, emotion_label)

\* detect_emotion_huggingface(text): what it returns or raises, and the POSTs made.
detect_emotion_huggingface(text, outcome) ==
    IF ~hf_key
    THEN [raised |-> TRUE, status_code |-> 500, posts |-> 0, result |-> <<>>]
    ELSE CASE outcome.kind = "ok" ->
                LET best_emotion == MaxByScore(outcome.emotions)
                    emotion_label == lower(best_emotion.label)
                IN  [raised |-> FALSE, status_code |-> 200, posts |-> 1,
                     result |-> [emotion |-> MapLabel(emotion_label),
                                 confidence |-> best_emotion.score,
                                 model_used |-> "j-hartmann/emotion-english-distilroberta-base",
                                 raw_emotions |-> outcome.emotions]]
           [] outcome.kind = "timeout" ->
                [raised |-> TRUE, status_code |-> 408, posts |-> 1, result |-> <<>>]
           [] OTHER ->
                \* the HTTPException raised for the bad answer is caught by
                \* "except Exception" and raised again with status 500
                [raised |-> TRUE, status_code |-> 500, posts |-> 1, result |-> <<>>]

\* the EmotionResponse of the fallback
FallbackResult(text) ==
    [emotion |-> "neutral", confidence |-> 500, model_used |-> "fallback",
     original_text |-> text]

\* the EmotionResponse built from the adapter's result
WithText(result, text) ==
    [emotion |-> result.emotion, confidence |-> result.confidence,
     model_used |-> result.model_used, raw_emotions |-> result.raw_emotions,
     original_text |-> text]

CleanTexts == {"", "I am happy"}

\* the HTTPException(429) of a refused request, raised again by "except HTTPException";
\* the variant lets "except Exception" turn it into the fallback response
ThrottledSwallowed(client_ip, text) ==
    Response("clean/detect-emotion", client_ip, text, "", "none",
             200, <<FallbackResult(text)>>, 0, "no", "throttled")
Throttled(client_ip, text) ==
    Response("clean/detect-emotion", client_ip, text, "", "none",
             429, <<>>, 0, "no", "throttled")

\* POST /api/detect-emotion
detect_emotion_clean(client_ip, text, outcome) ==
    LET rl == check_rate_limit(client_ip)
        r == detect_emotion_huggingface(text, outcome)
    IN  /\ rate_limit_cache' = rl.cache
        /\ resp' = IF ~rl.admit
                   THEN Throttled(client_ip, text)
                   ELSE IF r.raised
                   THEN \* the adapter's HTTPException, raised again likewise
                        Response("clean/detect-emotion", client_ip, text, "", outcome.kind,
                                 r.status_code, <<>>, r.posts, "yes", "error")
                   ELSE Response("clean/detect-emotion", client_ip, text, "", outcome.kind,
                                 200, <<WithText(r.result, text)>>, r.posts, "yes", "computed")
        /\ UNCHANGED <<now, hf_key, gemini_key, openrouter_key, in_flight, mainVars>>

\* POST /api/batch-detect-emotion: one result per text, the adapter's failures
\* replaced by the fallback entry.
BatchItem(text, outcome) ==
    LET r == detect_emotion_huggingface(text, outcome)
    IN  [result |-> IF r.raised THEN FallbackResult(text) ELSE WithText(r.result, text),
         posts |-> r.posts]

RECURSIVE SumPosts(_)
SumPosts(items) == IF Len(items) = 0 THEN 0 ELSE Head(items).posts + SumPosts(Tail(items))

\* the variant gives the whole request up at the first text that fails
batch_detect_emotion_clean_aborting(client_ip, texts, outcomes) ==
    LET items == [i \in 1..Len(texts) |-> BatchItem(texts[i], outcomes[i])]
        failed == \E i \in 1..Len(texts) : items[i].result.model_used = "fallback"
    IN  /\ resp' = Response("clean/batch-detect-emotion", client_ip, texts, "", "batch",
                            IF failed THEN 500 ELSE 200,
                            IF failed THEN <<>> ELSE [i \in 1..Len(texts) |-> items[i].result],
                            SumPosts(items), "unchecked",
                            IF failed THEN "error" ELSE "computed")
        /\ UNCHANGED <<now, cleanVars, mainVars>>
batch_detect_emotion_clean(client_ip, texts, outcomes) ==
    LET items == [i \in 1..Len(texts) |-> BatchItem(texts[i], outcomes[i])]
    IN  /\ resp' = Response("clean/batch-detect-emotion", client_ip, texts, "", "batch",
                            200, [i \in 1..Len(texts) |-> items[i].result],
                            SumPosts(items), "unchecked", "computed")
        /\ UNCHANGED <<now, cleanVars, mainVars>>

(***************************************************************************)
(* backend/main.py: helpers                                                *)
(***************************************************************************)
Whitespace == {" ", "\t", "\n"}

RECURSIVE lstrip(_)
lstrip(s) == IF Len(s) > 0 /\ Head(s) \in Whitespace THEN lstrip(Tail(s)) ELSE s

RECURSIVE rstrip(_)
rstrip(s) ==
    IF Len(s) > 0 /\ CharAt(s, Len(s)) \in Whitespace
    THEN rstrip(SubSeq(s, 1, Len(s) - 1))
    ELSE s

strip(s) == rstrip(lstrip(s))

\* "sub in s"
Contains(sub, s) == \E i \in 0..(Len(s) - Len(sub)) : SubSeq(s, i + 1, i + Len(sub)) = sub

startswith(s, prefix) == Len(prefix) <= Len(s) /\ SubSeq(s, 1, Len(prefix)) = prefix

endswith(s, suffix) ==
    Len(suffix) <= Len(s) /\ SubSeq(s, Len(s) - Len(suffix) + 1, Len(s)) = suffix

\* any(x in label for x in needles)
ContainsAny(needles, label) == \E x \in needles : Contains(x, label)

Min(a, b) == IF a <= b THEN a ELSE b

\* max(scores.values())
MaxValue(scores) ==
    CHOOSE m \in {scores[e] : e \in DOMAIN scores} : \A e \in DOMAIN scores : scores[e] <= m

\* max(scores, key=scores.get): the first key, in the dict's order, of the greatest value
FirstMaxKey(order, scores) ==
    order[CHOOSE i \in 1..Len(order) :
            /\ scores[order[i]] = MaxValue(scores)
            /\ \A j \in 1..(i - 1) : scores[order[j]] < MaxValue(scores)]

(***************************************************************************)
(* main.py: map_emotion_label, map_sentiment_to_emotion and the rule-based *)
(* fallback.                                                               *)
(***************************************************************************)
map_emotion_label(label0) ==
    LET label == lower(label0)
    IN  CASE ContainsAny({"joy", "happ", "excit", "amus"}, label) -> "joy"
          [] ContainsAny({"sad", "disappoint", "grief"}, label) -> "sadness"
          [] ContainsAny({"ang", "frus", "annoy", "irrita"}, label) -> "anger"
          [] ContainsAny({"fear", "anx", "worry", "nerv", "stress"}, label) -> "fear"
          [] ContainsAny({"love", "affe", "care", "compassion"}, label) -> "love"
          [] ContainsAny({"surp", "amaz", "awe", "astonish"}, label) -> "surprise"
          [] OTHER -> "neutral"

map_sentiment_to_emotion(sentiment) ==
    CASE sentiment.label = "POSITIVE" ->
            [emotion |-> "joy", confidence |-> sentiment.score, details |-> <<>>]
      [] sentiment.label = "NEGATIVE" /\ sentiment.score > 800 ->
            [emotion |-> "anger", confidence |-> sentiment.score, details |-> <<>>]
      [] sentiment.label = "NEGATIVE" ->
            [emotion |-> "sadness", confidence |-> sentiment.score, details |-> <<>>]
      [] OTHER ->
            [emotion |-> "neutral", confidence |-> sentiment.score, details |-> <<>>]

\* the keys of emotion_keywords in the order the dict literal lists them
EmotionOrderMain == <<"joy", "sadness", "anger", "fear", "love", "surprise", "neutral">>

emotion_keywords ==
    [joy |-> <<"happy", "joy", "excited", "glad", "delighted", "pleased">>,
     sadness |-> <<"sad", "unhappy", "depressed", "down", "miserable", "upset">>,
     anger |-> <<"angry", "mad", "furious", "annoyed", "irritated", "frustrated">>,
     fear |-> <<"afraid", "scared", "frightened", "worried", "anxious", "nervous">>,
     love |-> <<"love", "adore", "care", "cherish", "affection", "fond">>,
     surprise |-> <<"surprised", "amazed", "astonished", "shocked", "stunned", "wow">>,
     neutral |-> <<"okay", "fine", "alright", "neutral", "so-so", "moderate">>]

\* the test of "Count keyword matches"
KeywordMatches(text, keyword) ==
    \/ Contains(" " \o keyword \o " ", " " \o text \o " ")
    \/ startswith(text, keyword)
    \/ endswith(text, keyword)

CountMatches(text, keywords) ==
    Cardinality({i \in 1..Len(keywords) : KeywordMatches(text, keywords[i])})

\* "Count matches for each emotion"; the variant keeps the scores of the
\* call before instead of starting from a fresh dict
KeywordScoresKept(text) ==
    LET kept == IF resp.endpoint = "main/rule_based_emotion_detection"
                THEN resp.body[1].details
                ELSE [emotion \in DOMAIN emotion_keywords |->
                         IF emotion = "neutral" THEN 100 ELSE 0]
    IN  [emotion \in DOMAIN emotion_keywords |->
            kept[emotion] + 200 * CountMatches(text, emotion_keywords[emotion])]
KeywordScores(text) ==
    [emotion \in DOMAIN emotion_keywords |->
        (IF emotion = "neutral" THEN 100 ELSE 0)
            + 200 * CountMatches(text, emotion_keywords[emotion])]

rule_based_emotion_detection(text0) ==
    LET text == lower(text0)
        scores == KeywordScores(text)
    IN  IF MaxValue(scores) <= 100
        THEN [emotion |-> "neutral", confidence |-> 800, details |-> scores]
        ELSE LET max_emotion == FirstMaxKey(EmotionOrderMain, scores)
             IN  [emotion |-> max_emotion,
                  confidence |-> Min(700, scores[max_emotion]),
                  details |-> scores]

(***************************************************************************)
(* main.py: emotion_cache = TTLCache(maxsize=1000, ttl=3600).              *)
(* The cache is the sequence of its entries, the least recently used       *)
(* first; an entry is [key, value, expires].  cachetools calls an entry    *)
(* expired once the timer is no longer below its expiry time.              *)
(***************************************************************************)
maxsize == 1000
ttl == 3600

\* the variant never lets an entry expire
LiveForever(entry, time) == TRUE
Live(entry, time) == time < entry.expires

\* TTLCache.expire(time)
expire(cache, time) == SelectSeq(cache, LAMBDA entry : Live(entry, time))

HasKey(cache, key) == \E i \in 1..Len(cache) : cache[i].key = key

IndexOf(cache, key) == CHOOSE i \in 1..Len(cache) : cache[i].key = key

Without(cache, key) == SelectSeq(cache, LAMBDA entry : entry.key # key)

\* "key in emotion_cache"
CacheContains(cache, key, time) ==
    HasKey(cache, key) /\ Live(cache[IndexOf(cache, key)], time)

\* "emotion_cache[key]" of a live key: the value, and the entry now the most recently used;
\* the variant tags the value again as the function's tail tags a fresh result
CacheGetItemRetagged(cache, key) ==
    [value |-> [cache[IndexOf(cache, key)].value EXCEPT !.model_used = "rule-based"],
     cache |-> Append(Without(cache, key), cache[IndexOf(cache, key)])]
CacheGetItem(cache, key) ==
    [value |-> cache[IndexOf(cache, key)].value,
     cache |-> Append(Without(cache, key), cache[IndexOf(cache, key)])]

\* Cache.__setitem__ of a new key: popitem() while the cache is full;
\* the variant drops the most recently used entries instead
MakeRoomDropsNewest(cache) ==
    IF Len(cache) + 1 > maxsize THEN SubSeq(cache, 1, maxsize - 1) ELSE cache
MakeRoom(cache) ==
    IF Len(cache) + 1 > maxsize
    THEN SubSeq(cache, Len(cache) - maxsize + 2, Len(cache))
    ELSE cache

\* "emotion_cache[key] = value"; the variant stores no rule-based result
CacheSetItemNoFallback(cache, key, value, time) ==
    LET live == expire(cache, time)
        kept == IF HasKey(live, key) THEN Without(live, key) ELSE MakeRoom(live)
    IN  IF value.model_used = "rule-based"
        THEN cache
        ELSE Append(kept, [key |-> key, value |-> value, expires |-> time + ttl])
CacheSetItem(cache, key, value, time) ==
    LET live == expire(cache, time)
        kept == IF HasKey(live, key) THEN Without(live, key) ELSE MakeRoom(live)
    IN  Append(kept, [key |-> key, value |-> value, expires |-> time + ttl])

(***************************************************************************)
(* main.py: POST /detect-emotion.                                          *)
(* What models["emotion_classifier"](text) can give:                       *)
(*   nested   [[{label, score}, ...]]      flat   [{label, score}, ...]    *)
(*   empty    []                           error  an exception             *)
(* and models["sentiment_analyzer"](text): ok [{label, score}] or error.   *)
(* processed_time, a measured duration, is left out of the results.        *)
(***************************************************************************)
ClassifierOutcomes ==
    {[kind |-> "nested",
      emotions |-> <<[label |-> "admiration", score |-> 200],
                     [label |-> "disgust", score |-> 700],
                     [label |-> "annoyance", score |-> 700]>>],
     [kind |-> "nested", emotions |-> <<>>],
     [kind |-> "flat", emotions |-> <<[label |-> "LABEL_0", score |-> 900]>>],
     [kind |-> "flat", emotions |-> <<[label |-> "excitement", score |-> 1000]>>],
     [kind |-> "empty", emotions |-> <<>>],
     [kind |-> "error", emotions |-> <<>>]}

SentimentOutcomes ==
    {[kind |-> "ok", label |-> "POSITIVE", score |-> 990],
     [kind |-> "ok", label |-> "NEGATIVE", score |-> 900],
     [kind |-> "ok", label |-> "NEGATIVE", score |-> 600],
     [kind |-> "error", label |-> "", score |-> 0]}

ShortResult ==
    [emotion |-> "neutral", confidence |-> 1000, model_used |-> "rule-based",
     details |-> [neutral |-> 1000]]

Tagged(result, model_used) ==
    [emotion |-> result.emotion, confidence |-> result.confidence,
     model_used |-> model_used, details |-> result.details]

\* "Fast mode": result is <<>> for None; raised when the pipeline or max() raises
UseClassifier(c) ==
    CASE c.kind = "error" -> [raised |-> TRUE, result |-> <<>>]
      [] c.kind = "nested" /\ Len(c.emotions) = 0 -> [raised |-> TRUE, result |-> <<>>]
      [] c.kind = "nested" ->
            [raised |-> FALSE,
             result |-> <<Tagged([emotion |-> map_emotion_label(MaxByScore(c.emotions).label),
                                  confidence |-> MaxByScore(c.emotions).score,
                                  details |-> c.emotions], "emotion_classifier")>>]
      [] c.kind = "flat" ->
            [raised |-> FALSE,
             result |-> <<Tagged([emotion |-> map_emotion_label(c.emotions[1].label),
                                  confidence |-> c.emotions[1].score,
                                  details |-> <<>>], "emotion_classifier")>>]
      [] OTHER -> [raised |-> FALSE, result |-> <<>>]

\* "Fallback to sentiment analyzer if needed"
UseSentiment(s) ==
    IF s.kind = "error"
    THEN [raised |-> TRUE, result |-> <<>>]
    ELSE [raised |-> FALSE,
          result |-> <<Tagged(map_sentiment_to_emotion(s), "sentiment_analyzer")>>]

\* the body of the try block: the result, whether it raised, the ML pipelines called
Classify(text, c, s) ==
    LET first == IF TRANSFORMERS_AVAILABLE /\ models.emotion_classifier
                 THEN UseClassifier(c)
                 ELSE [raised |-> FALSE, result |-> <<>>]
        n1 == IF TRANSFORMERS_AVAILABLE /\ models.emotion_classifier THEN 1 ELSE 0
        second == IF TRANSFORMERS_AVAILABLE /\ models.sentiment_analyzer
                  THEN UseSentiment(s)
                  ELSE [raised |-> FALSE, result |-> <<>>]
        n2 == IF TRANSFORMERS_AVAILABLE /\ models.sentiment_analyzer THEN 1 ELSE 0
        k1 == IF n1 = 1 THEN c.kind ELSE "none"
        k2 == IF n2 = 1 THEN s.kind ELSE "none"
    IN  IF first.raised \/ Len(first.result) > 0
        THEN [raised |-> first.raised, result |-> first.result, calls |-> n1,
              adapter |-> k1 \o "/none"]
        ELSE IF second.raised \/ Len(second.result) > 0
        THEN [raised |-> second.raised, result |-> second.result, calls |-> n1 + n2,
              adapter |-> k1 \o "/" \o k2]
        ELSE [raised |-> FALSE,
              result |-> <<Tagged(rule_based_emotion_detection(text), "rule-based")>>,
              calls |-> n1 + n2, adapter |-> k1 \o "/" \o k2]

MinTextLen == 3

\* detect_emotion(request) on a given cache: the response and the cache it leaves
detect_emotion_on(cache, text0, model_preference, c, s) ==
    LET text == strip(text0)
        cache_key == text \o "_" \o model_preference
        r == Classify(text, c, s)
    IN  IF Len(text) < MinTextLen
        THEN [status |-> 200, body |-> <<ShortResult>>, calls |-> 0, adapter |-> "none",
              served |-> "short", cache |-> cache]
        ELSE IF CacheContains(cache, cache_key, now)
        THEN [status |-> 200, body |-> <<CacheGetItem(cache, cache_key).value>>,
              calls |-> 0, adapter |-> "none", served |-> "cache",
              cache |-> CacheGetItem(cache, cache_key).cache]
        ELSE IF r.raised
        THEN \* "except Exception": HTTPException(status_code=500)
             [status |-> 500, body |-> <<>>, calls |-> r.calls, adapter |-> r.adapter,
              served |-> "error", cache |-> cache]
        ELSE [status |-> 200, body |-> r.result, calls |-> r.calls, adapter |-> r.adapter,
              served |-> "computed",
              cache |-> CacheSetItem(cache, cache_key, r.result[1], now)]

\* POST /detect-emotion
detect_emotion_main(text0, model_preference, c, s) ==
    LET r == detect_emotion_on(emotion_cache, text0, model_preference, c, s)
    IN  /\ resp' = Response("main/detect-emotion", "", text0, model_preference, r.adapter,
                            r.status, r.body, r.calls, "unchecked", r.served)
        /\ emotion_cache' = r.cache

(***************************************************************************)
(* backend/app.py: the rule-based scoring that ends detect_emotion.        *)
(* The file keeps the tail of the scoring only (from the diminisher test   *)
(* on); the lexicon, the negation detector and the keyword test that       *)
(* precede it are taken from the specification (sections 3 and 4.1-4.2).   *)
(* Scores are in millionths, confidences in thousandths.                   *)
(***************************************************************************)
One == 1000 * 1000

\* the order of the score dict: the order the specification declares for
\* EmotionLabel (the enum of app.py itself lists neutral before love)
EmotionOrderApp == <<"joy", "sadness", "anger", "fear", "surprise", "love", "neutral">>

app_emotion_keywords ==
    [joy |-> <<"happy", "joy", "excited", "grateful", "glad">>,
     sadness |-> <<"sad", "lonely", "disappointed", "hurt", "upset", "unhappy">>,
     anger |-> <<"angry", "frustrated", "mad", "furious">>,
     fear |-> <<"scared", "worried", "afraid", "anxious", "nervous", "terrified">>,
     surprise |-> <<"surprised", "amazed", "shocked">>,
     love |-> <<"love", "adore">>,
     neutral |-> <<"okay", "fine">>]

diminishers == <<"a bit", "slightly", "somewhat", "a little", "kind of">>

negations == <<"not", "no", "never">>

WordChars == LowerChars \o UpperChars \o "0123456789_"

IsWordChar(c) == \E i \in 1..Len(WordChars) : CharAt(WordChars, i) = c

\* a whole-word occurrence of word in text
WholeWord(word, text) ==
    \E i \in 0..(Len(text) - Len(word)) :
        /\ SubSeq(text, i + 1, i + Len(word)) = word
        /\ i = 0 \/ ~IsWordChar(CharAt(text, i))
        /\ i + Len(word) = Len(text) \/ ~IsWordChar(CharAt(text, i + Len(word) + 1))

has_negation(text) == \E i \in 1..Len(negations) : WholeWord(negations[i], text)

\* the diminishers next to the word: each scales the word's score by 0.6
Diminished(text, word) ==
    {i \in 1..Len(diminishers) :
        \/ Contains(diminishers[i] \o " " \o word, text)
        \/ Contains(word \o " " \o diminishers[i], text)}

RECURSIVE Scale(_, _, _, _)
Scale(score, num, den, times) ==
    IF times = 0 THEN score ELSE Scale((score * num) \div den, num, den, times - 1)

\* the score one matched word adds to its emotion
WordScore(text, word) ==
    LET base == One
        diminished == Scale(base, 6, 10, Cardinality(Diminished(text, word)))
    IN  IF has_negation(text) THEN (diminished * 3) \div 10 ELSE diminished

RECURSIVE SumWordScores(_, _)
SumWordScores(text, words) ==
    IF Len(words) = 0 THEN 0
    ELSE (IF WholeWord(Head(words), text) THEN WordScore(text, Head(words)) ELSE 0)
            + SumWordScores(text, Tail(words))

LexiconScores(text) ==
    [emotion \in DOMAIN app_emotion_keywords |->
        SumWordScores(text, app_emotion_keywords[emotion])]

compound_patterns ==
    [joy |-> <<"happy and excited", "love and joy", "happy and grateful", "excited and happy">>,
     sadness |-> <<"sad and lonely", "disappointed and hurt", "sad and angry", "upset and sad">>,
     anger |-> <<"angry and frustrated", "mad and disappointed", "angry and upset",
                 "furious and mad">>,
     fear |-> <<"scared and worried", "afraid and anxious", "nervous and scared",
                "terrified and afraid">>,
     surprise |-> <<"surprised and amazed", "shocked and surprised", "amazed and shocked">>]

\* how many of the words (a list, counted with its repetitions) occur in the text
CountIn(text, words) == Cardinality({i \in 1..Len(words) : Contains(words[i], text)})

\* "Handle compound emotions and context"
WithCompounds(text, scores) ==
    [emotion \in DOMAIN scores |->
        scores[emotion]
            + (IF emotion \in DOMAIN compound_patterns
               THEN 2 * One * CountIn(text, compound_patterns[emotion]) ELSE 0)]

positive_indicators ==
    <<"good", "great", "awesome", "wonderful", "fantastic", "amazing", "excellent", "positive">>
negative_indicators ==
    <<"bad", "terrible", "awful", "horrible", "worst", "negative", "awful">>

\* "Handle basic sentiment indicators if no specific emotions found"
WithSentiment(text, scores) ==
    LET positive_count == CountIn(text, positive_indicators)
        negative_count == CountIn(text, negative_indicators)
    IN  IF MaxValue(scores) >= One THEN scores
        ELSE IF positive_count > negative_count
        THEN [scores EXCEPT !["joy"] = @ + One]
        ELSE IF negative_count > positive_count
        THEN [scores EXCEPT !["sadness"] = @ + One]
        ELSE scores

\* "Handle exclamation and question marks as emotion indicators"
WithExclamation(text, scores) ==
    LET max_emotion == FirstMaxKey(EmotionOrderApp, scores)
    IN  IF endswith(text, "!") /\ scores[max_emotion] > 0
        THEN [scores EXCEPT ![max_emotion] = (@ * 12) \div 10]
        ELSE scores

RECURSIVE SumScores(_, _)
SumScores(order, scores) ==
    IF Len(order) = 0 THEN 0 ELSE scores[Head(order)] + SumScores(Tail(order), scores)

\* round(100 * num / den), a tie going to the even neighbour
RoundRatio100(num, den) ==
    LET q == (100 * num) \div den
        twice == 2 * ((100 * num) % den)
    IN  IF twice > den \/ (twice = den /\ q % 2 = 1) THEN q + 1 ELSE q

\* "Calculate confidence based on score distribution", then round(confidence, 2);
\* the variant leaves the cap out
ConfidenceUncapped(max_score, total_score) ==
    IF total_score > 0 THEN 10 * RoundRatio100(max_score, total_score) ELSE 500
Confidence(max_score, total_score) ==
    IF total_score > 0
    THEN Min(10 * RoundRatio100(max_score, total_score), 950)
    ELSE 500

\* "Determine dominant emotion" to the end of the function
Dominant(emotion_scores) ==
    LET max_score == MaxValue(emotion_scores)
        dominant_emotion == FirstMaxKey(EmotionOrderApp, emotion_scores)
        total_score == SumScores(EmotionOrderApp, emotion_scores)
    IN  IF 2 * max_score < One
        THEN [emotion |-> "neutral", confidence |-> 400, model_used |-> "rule-based",
              details |-> <<>>]
        ELSE [emotion |-> dominant_emotion,
              confidence |-> Confidence(max_score, total_score),
              model_used |-> "rule-based", details |-> emotion_scores]

rule_based_scoring(text0) ==
    LET text == lower(text0)
    IN  Dominant(WithExclamation(text,
                    WithSentiment(text, WithCompounds(text, LexiconScores(text)))))

\* POST /detect-emotion of app.py: the early exit, else the scoring
detect_emotion_app(text0) ==
    IF Len(text0) = 0 \/ Len(strip(text0)) < MinTextLen
    THEN [emotion |-> "neutral", confidence |-> 500, model_used |-> "", details |-> <<>>]
    ELSE rule_based_scoring(strip(text0))

(***************************************************************************)
(* The proxy of app_new_clean.py as a state machine.  SpecClean explores   *)
(* every answer of the external API at both endpoints; SpecRate explores   *)
(* the sliding window over a longer stretch of time.                       *)
(***************************************************************************)
Tick(steps, limit) ==
    \E d \in steps :
        /\ now + d <= limit
        /\ now' = now + d
        /\ UNCHANGED <<cleanVars, mainVars, resp>>

Detect(texts, outcomes) ==
    \E client_ip \in Clients, text \in texts, outcome \in outcomes :
        detect_emotion_clean(client_ip, text, outcome)

BatchOutcomes ==
    {o \in HFOutcomes : o.kind = "timeout" \/ (o.kind = "ok" /\ Len(o.emotions) > 1)}

Batch ==
    \E client_ip \in Clients, n \in 0..MaxBatch :
        \E outcomes \in [1..n -> BatchOutcomes] :
            batch_detect_emotion_clean(client_ip, [i \in 1..n |-> "I am happy"], outcomes)

\* main.py is not running: nothing loaded, nothing cached
MainIdle ==
    /\ TRANSFORMERS_AVAILABLE = FALSE
    /\ models = [emotion_classifier |-> FALSE, sentiment_analyzer |-> FALSE]
    /\ emotion_cache = <<>>
    /\ message_cache = <<>>

InitClean ==
    /\ now = 0
    /\ hf_key \in BOOLEAN
    /\ gemini_key = FALSE
    /\ openrouter_key = FALSE
    /\ in_flight = NoRequests
    /\ rate_limit_cache = [c \in Clients |-> <<>>]
    /\ MainIdle
    /\ resp = NoResp

TickClean == Tick({RATE_LIMIT_WINDOW}, MaxTimeClean)
DetectClean == Detect(CleanTexts, HFOutcomes)
BatchClean == Batch

NextClean == TickClean \/ DetectClean \/ BatchClean

SpecClean == InitClean /\ [][NextClean]_vars

RateTicks == {RATE_LIMIT_WINDOW - 1, RATE_LIMIT_WINDOW, RATE_LIMIT_WINDOW + 1}
RateOutcomes == {o \in HFOutcomes : o.kind = "timeout" \/ (o.kind = "ok" /\ Len(o.emotions) > 1)}

InitRate ==
    /\ now = 0
    /\ hf_key = TRUE
    /\ gemini_key = FALSE
    /\ openrouter_key = FALSE
    /\ in_flight = NoRequests
    /\ rate_limit_cache = [c \in Clients |-> <<>>]
    /\ MainIdle
    /\ resp = NoResp

TickRate == Tick(RateTicks, MaxTimeRate)
DetectRate == Detect({"I am happy"}, RateOutcomes)

NextRate == TickRate \/ DetectRate

SpecRate == InitRate /\ [][NextRate]_vars

(***************************************************************************)
(* The service of main.py as a state machine.  SpecMain explores the       *)
(* detection endpoint with every state the model loading can leave;        *)
(* SpecFill sends MaxFill distinct texts, one after the other, to a        *)
(* service without ML models.                                              *)
(***************************************************************************)
\* app_new_clean.py is not running
CleanIdle ==
    /\ hf_key = FALSE
    /\ gemini_key = FALSE
    /\ openrouter_key = FALSE
    /\ in_flight = NoRequests
    /\ rate_limit_cache = [c \in Clients |-> <<>>]

\* lifespan startup: load_models_in_background() loads the classifier, then the
\* sentiment analyzer, and logs the exception that stops it
LoadedModels ==
    {[emotion_classifier |-> FALSE, sentiment_analyzer |-> FALSE],
     [emotion_classifier |-> TRUE, sentiment_analyzer |-> FALSE],
     [emotion_classifier |-> TRUE, sentiment_analyzer |-> TRUE]}

InitMain ==
    /\ now = 0
    /\ CleanIdle
    /\ TRANSFORMERS_AVAILABLE \in BOOLEAN
    /\ models \in (IF TRANSFORMERS_AVAILABLE THEN LoadedModels
                   ELSE {[emotion_classifier |-> FALSE, sentiment_analyzer |-> FALSE]})
    /\ emotion_cache = <<>>
    /\ message_cache = <<>>
    /\ resp = NoResp

MainTexts == {"hi", " I am happy ", "so sad"}
MainPrefs == {"fast"}
MainTicks == {ttl - 1, ttl, ttl + 1}

TickMain == Tick(MainTicks, MaxTimeMain)

\* an outcome is drawn only for a pipeline that the request reaches
NoClassifier == [kind |-> "none", emotions |-> <<>>]
NoSentiment == [kind |-> "none", label |-> "", score |-> 0]

ClassifierAnswers ==
    IF TRANSFORMERS_AVAILABLE /\ models.emotion_classifier
    THEN ClassifierOutcomes ELSE {NoClassifier}

SentimentAnswers(c) ==
    IF TRANSFORMERS_AVAILABLE /\ models.sentiment_analyzer /\ c.kind \in {"none", "empty"}
    THEN SentimentOutcomes ELSE {NoSentiment}

DetectMain ==
    \E text \in MainTexts, model_preference \in MainPrefs, c \in ClassifierAnswers :
        \E s \in SentimentAnswers(c) :
            /\ detect_emotion_main(text, model_preference, c, s)
            /\ UNCHANGED <<now, cleanVars, TRANSFORMERS_AVAILABLE, models, message_cache>>

NextMain == TickMain \/ DetectMain

SpecMain == InitMain /\ [][NextMain]_vars

Digits == "0123456789"

RECURSIVE Decimal(_)
Decimal(n) ==
    IF n < 10 THEN CharAt(Digits, n + 1)
    ELSE Decimal(n \div 10) \o CharAt(Digits, (n % 10) + 1)

FillTexts == [k \in 1..MaxFill |-> "note " \o Decimal(k)]
FillKey(k) == FillTexts[k] \o "_fast"

InitFill ==
    /\ now = 0
    /\ CleanIdle
    /\ MainIdle
    /\ resp = NoResp

\* the next text is sent once the one before it has been answered
DetectFill ==
    \E k \in 1..MaxFill :
        /\ IF k = 1 THEN emotion_cache = <<>>
           ELSE /\ emotion_cache # <<>>
                /\ emotion_cache[Len(emotion_cache)].key = FillKey(k - 1)
        /\ detect_emotion_main(FillTexts[k], "fast", NoClassifier, NoSentiment)
        /\ UNCHANGED <<now, cleanVars, TRANSFORMERS_AVAILABLE, models, message_cache>>

NextFill == DetectFill

SpecFill == InitFill /\ [][NextFill]_vars

(***************************************************************************)
(* The rule-based classifiers on their own: each step classifies one text  *)
(* of the corpus with the fallback of main.py or with the scoring of       *)
(* app.py.                                                                 *)
(***************************************************************************)
RuleTexts ==
    {"", "hi", "  ok ", "I am happy", "I am not happy", "I am happy!", "happy", "happy!",
     "I'm feeling really happy and excited today!",
     "This makes me quite sad and disappointed.",
     "I'm angry about what happened today.",
     "I feel scared and worried about the future.",
     "The weather is nice today.", "I'm not feeling well",
     "madrid is nice", "the slowdown", "downtown", "I feel down", "mad", "I am mad",
     "so sad", "sad and lonely", "never sad", "a bit sad", "I am a bit sad",
     "slightly worried", "somewhat angry", "kind of sad and a bit sad",
     "surprised and in love", "love and surprised", "I love you",
     "good", "great day", "bad day", "awful", "awful and great", "terrible!",
     "not good", "excellent", "worst day ever!", "positive vibes",
     "okay", "fine", "I am fine and happy", "alright", "so-so",
     "wow", "WOW!", "amazed", "shocked and surprised",
     "happy sad", "sad happy", "happy happy joy", "joy", "unhappy", "I am unhappy",
     "glad", "delighted and pleased and glad and happy",
     "I am so excited and happy", "excited and happy!",
     "angry and frustrated", "furious and mad!", "scared", "afraid and anxious",
     "nervous wreck", "I adore and cherish you", "nothing", "no",
     "happy and excited but sad", "happy and excited but a bit sad",
     "I am sad, angry and scared", "not sad and not angry, just a little worried"}

\* the classifiers are pure: their results over the corpus
MainResults ==
    [text \in RuleTexts |-> Tagged(rule_based_emotion_detection(text), "rule-based")]
AppResults == [text \in RuleTexts |-> detect_emotion_app(text)]

RuleMain ==
    \E text \in RuleTexts :
        /\ resp' = Response("main/rule_based_emotion_detection", "", text, "", "none", 200,
                            <<MainResults[text]>>, 0, "unchecked", "computed")
        /\ UNCHANGED <<now, cleanVars, mainVars>>

RuleApp ==
    \E text \in RuleTexts :
        /\ resp' = Response("app/detect-emotion", "", text, "", "none", 200,
                            <<AppResults[text]>>, 0, "unchecked", "computed")
        /\ UNCHANGED <<now, cleanVars, mainVars>>

InitRule ==
    /\ now = 0
    /\ CleanIdle
    /\ MainIdle
    /\ resp = NoResp

NextRule == RuleMain \/ RuleApp

SpecRule == InitRule /\ [][NextRule]_vars

(***************************************************************************)
(* main.py: the lifespan of the service, the message endpoints and the     *)
(* batch endpoint.  A message is named by its type, its emotion and its    *)
(* place in the list of message_responses.                                 *)
(***************************************************************************)
\* the emotions and message types that get_message and refresh_cache accept
MessageEmotions == {"joy", "sadness", "anger", "fear", "love", "surprise", "neutral"}
MessageTypes == {"jokes", "encouragement", "quotes"}

\* message_responses[message_type][emotion]: two messages in every list
message_responses(message_type, emotion) ==
    {[type |-> message_type, emotion |-> emotion, place |-> i] : i \in {1, 2}}

MessageKey(message_type, emotion) == message_type \o ":" \o emotion

\* the response of a step that is no detection request
Plain(endpoint, text, pref, status, body, served) ==
    Response(endpoint, "", text, pref, "none", status, body, 0, "unchecked", served)

\* lifespan, before the yield: load_models_in_background() stops at the
\* first pipeline that fails to load
lifespan_startup ==
    /\ IF TRANSFORMERS_AVAILABLE
       THEN models' \in {models,
                         [models EXCEPT !.emotion_classifier = TRUE],
                         [emotion_classifier |-> TRUE, sentiment_analyzer |-> TRUE]}
       ELSE UNCHANGED models
    /\ resp' = Plain("main/lifespan", "startup", "", 0, <<>>, "none")
    /\ UNCHANGED <<now, cleanVars, TRANSFORMERS_AVAILABLE, emotion_cache, message_cache>>

\* lifespan, after the yield; the variant leaves the cache as it is
lifespan_shutdown_keeps ==
    /\ models' = [emotion_classifier |-> FALSE, sentiment_analyzer |-> FALSE]
    /\ resp' = Plain("main/lifespan", "shutdown", "", 0, <<>>, "none")
    /\ UNCHANGED <<now, cleanVars, TRANSFORMERS_AVAILABLE, emotion_cache, message_cache>>
lifespan_shutdown ==
    /\ emotion_cache' = <<>>
    /\ models' = [emotion_classifier |-> FALSE, sentiment_analyzer |-> FALSE]
    /\ resp' = Plain("main/lifespan", "shutdown", "", 0, <<>>, "none")
    /\ UNCHANGED <<now, cleanVars, TRANSFORMERS_AVAILABLE, message_cache>>

\* GET /message/{message_type}/{emotion}; choice is what random.choice picks
get_message(message_type, emotion, choice) ==
    LET cache_key == MessageKey(message_type, emotion)
    IN  /\ IF emotion \notin MessageEmotions \/ message_type \notin MessageTypes
           THEN /\ resp' = Plain("main/message", emotion, message_type, 400, <<>>, "error")
                /\ UNCHANGED message_cache
           ELSE IF cache_key \in DOMAIN message_cache
           THEN /\ resp' = Plain("main/message", emotion, message_type, 200,
                                 <<message_cache[cache_key]>>, "cache")
                /\ UNCHANGED message_cache
           ELSE /\ resp' = Plain("main/message", emotion, message_type, 200,
                                 <<choice>>, "computed")
                /\ message_cache' =
                       [k \in DOMAIN message_cache \cup {cache_key} |->
                           IF k = cache_key THEN choice ELSE message_cache[k]]
        /\ UNCHANGED <<now, cleanVars, TRANSFORMERS_AVAILABLE, models, emotion_cache>>

\* POST /refresh-cache: the HTTPException(400) of the validation is raised
\* inside the try block, so "except Exception" answers 500 for it
refresh_cache(message_type, emotion) ==
    LET cache_key == MessageKey(message_type, emotion)
    IN  /\ IF emotion \notin MessageEmotions \/ message_type \notin MessageTypes
           THEN /\ resp' = Plain("main/refresh-cache", emotion, message_type, 500, <<>>,
                                 "error")
                /\ UNCHANGED message_cache
           ELSE /\ resp' = Plain("main/refresh-cache", emotion, message_type, 200, <<>>,
                                 "computed")
                /\ message_cache' =
                       [k \in DOMAIN message_cache \ {cache_key} |-> message_cache[k]]
        /\ UNCHANGED <<now, cleanVars, TRANSFORMERS_AVAILABLE, models, emotion_cache>>

MaxBatchSize == 50

\* the loop of batch_detect_emotion over the texts lo..hi in their order:
\* detect_emotion on one text after the other, each on the cache the text
\* before it left; the exception of one text ends the loop and the request.
\* The span is evaluated by halves, the second half on the outcome of the first.
RECURSIVE BatchLoop(_, _, _, _, _, _, _)
BatchLoop(st, texts, model_preference, cs, ss, lo, hi) ==
    IF st.status # 200 \/ lo > hi
    THEN st
    ELSE IF lo = hi
    THEN LET after(r) ==
                 IF r.status # 200
                 THEN [status |-> r.status, body |-> <<>>, calls |-> st.calls + r.calls,
                       cache |-> r.cache]
                 ELSE [status |-> 200, body |-> st.body \o r.body,
                       calls |-> st.calls + r.calls, cache |-> r.cache]
         IN  CHOOSE out \in {after(r) : r \in {detect_emotion_on(st.cache, texts[lo],
                                                      model_preference, cs[lo], ss[lo])}} :
                 TRUE
    ELSE LET mid == (lo + hi) \div 2
         IN  CHOOSE out \in {BatchLoop(half, texts, model_preference, cs, ss, mid + 1, hi) :
                             half \in {BatchLoop(st, texts, model_preference, cs, ss,
                                                 lo, mid)}} : TRUE

\* POST /batch-detect-emotion of main.py
batch_detect_emotion_main(texts, model_preference, cs, ss) ==
    /\ IF Len(texts) > MaxBatchSize
       THEN /\ resp' = Response("main/batch-detect-emotion", "", texts, model_preference,
                                "none", 400, <<>>, 0, "unchecked", "error")
            /\ UNCHANGED emotion_cache
       ELSE \E r \in {BatchLoop([status |-> 200, body |-> <<>>, calls |-> 0,
                                 cache |-> emotion_cache],
                                texts, model_preference, cs, ss, 1, Len(texts))} :
                /\ resp' = Response("main/batch-detect-emotion", "", texts, model_preference,
                                    "batch", r.status, r.body, r.calls, "unchecked",
                                    IF r.status = 200 THEN "computed" ELSE "error")
                /\ emotion_cache' = r.cache
    /\ UNCHANGED <<now, cleanVars, TRANSFORMERS_AVAILABLE, models, message_cache>>

(***************************************************************************)
(* SpecAdmin: the service of main.py through its lifespan, with the        *)
(* detection, message and refresh endpoints.  The texts and preferences    *)
(* are chosen so that two different requests build the same cache key.     *)
(***************************************************************************)
AdminTexts == {"I am happy_not", "I am happy"}
AdminPrefs == {"fast", "not_fast"}
AdminTypes == {"jokes"}
AdminEmotions == {"joy", "bored"}

\* the transformers import succeeded; no model is loaded before the startup
InitAdmin ==
    /\ now = 0
    /\ CleanIdle
    /\ TRANSFORMERS_AVAILABLE = TRUE
    /\ models = [emotion_classifier |-> FALSE, sentiment_analyzer |-> FALSE]
    /\ emotion_cache = <<>>
    /\ message_cache = <<>>
    /\ resp = NoResp

AdminClassifierAnswers ==
    IF TRANSFORMERS_AVAILABLE /\ models.emotion_classifier
    THEN {c \in ClassifierOutcomes : c.kind = "empty" \/ c.emotions = <<[label |-> "LABEL_0", score |-> 900]>>}
    ELSE {NoClassifier}

AdminSentimentAnswers(c) ==
    IF TRANSFORMERS_AVAILABLE /\ models.sentiment_analyzer /\ c.kind \in {"none", "empty"}
    THEN {x \in SentimentOutcomes : x.label # "NEGATIVE"}
    ELSE {NoSentiment}

DetectAdmin ==
    \E text \in AdminTexts, model_preference \in AdminPrefs, c \in AdminClassifierAnswers :
        \E x \in AdminSentimentAnswers(c) :
            /\ detect_emotion_main(text, model_preference, c, x)
            /\ UNCHANGED <<now, cleanVars, TRANSFORMERS_AVAILABLE, models, message_cache>>

GetMessageAdmin ==
    \E message_type \in AdminTypes, emotion \in AdminEmotions :
        \E choice \in message_responses(message_type, emotion) :
            get_message(message_type, emotion, choice)

RefreshAdmin ==
    \E message_type \in AdminTypes, emotion \in AdminEmotions :
        refresh_cache(message_type, emotion)

NextAdmin ==
    lifespan_startup \/ lifespan_shutdown \/ DetectAdmin \/ GetMessageAdmin \/ RefreshAdmin

SpecAdmin == InitAdmin /\ [][NextAdmin]_vars

(***************************************************************************)
(* SpecPair: two clients of the proxy of app_new_clean.py, each with its   *)
(* own window, the external API timing out on every admitted request.      *)
(***************************************************************************)
PairClients == {"10.0.0.1", "10.0.0.2"}

InitPair ==
    /\ now = 0
    /\ hf_key = TRUE
    /\ gemini_key = FALSE
    /\ openrouter_key = FALSE
    /\ in_flight = NoRequests
    /\ rate_limit_cache = [c \in PairClients |-> <<>>]
    /\ MainIdle
    /\ resp = NoResp

TickPair == Tick({RATE_LIMIT_WINDOW}, MaxTimePair)

DetectPair ==
    \E client_ip \in PairClients :
        detect_emotion_clean(client_ip, "I am happy", [kind |-> "timeout", emotions |-> <<>>])

NextPair == TickPair \/ DetectPair

SpecPair == InitPair /\ [][NextPair]_vars

(***************************************************************************)
(* SpecBatch: the batch endpoints of main.py (no model loaded) and of      *)
(* app_new_clean.py with batches up to one text past the cap of main.py.   *)
(* The external API times out on every text of a batch.                    *)
(***************************************************************************)
BatchSizes == {0, 1, MaxBatchSize, MaxBatchBig}

InitBatch ==
    /\ now = 0
    /\ hf_key = TRUE
    /\ gemini_key = FALSE
    /\ openrouter_key = FALSE
    /\ in_flight = NoRequests
    /\ rate_limit_cache = [c \in Clients |-> <<>>]
    /\ MainIdle
    /\ resp = NoResp

TickBatch == Tick({ttl}, MaxTimeBatch)

BatchMain ==
    \E n \in BatchSizes, first \in {1, 2} :
        batch_detect_emotion_main([i \in 1..n |-> FillTexts[first + i - 1]], "fast",
                                  [i \in 1..n |-> NoClassifier],
                                  [i \in 1..n |-> NoSentiment])

BatchCleanBig ==
    \E client_ip \in Clients, n \in BatchSizes,
       outcome \in {o \in BatchOutcomes : o.kind = "timeout"} :
        batch_detect_emotion_clean(client_ip, [i \in 1..n |-> "I am happy"],
                                   [i \in 1..n |-> outcome])

NextBatch == TickBatch \/ BatchMain \/ BatchCleanBig

SpecBatch == InitBatch /\ [][NextBatch]_vars

(***************************************************************************)
(* backend/app_new_clean.py: the wellness assistant and its chat adapters. *)
(* The text a chat API returns is an input; the prompt sent to it is not   *)
(* modelled.  NoValue stands for Python's None in an optional field.       *)
(***************************************************************************)
NoValue == "<None>"

Chat(endpoint, messages, current_emotion, ai_model, status, message, model_used, attempted, failed) ==
    [endpoint |-> endpoint, messages |-> messages, current_emotion |-> current_emotion,
     ai_model |-> ai_model, status |-> status, message |-> message,
     model_used |-> model_used, emotion_context |-> current_emotion,
     attempted |-> attempted, failed |-> failed]

\* what generate_content can do: a text, an empty response, an exception
GeminiOutcomes ==
    {[kind |-> "ok", text |-> " Take a slow breath. "],
     [kind |-> "ok", text |-> ""],
     [kind |-> "raised", text |-> ""]}

\* what the post to OpenRouter can do: 200 with a choice, 200 without one,
\* another status, an exception
OpenRouterOutcomes ==
    {[kind |-> "ok", text |-> "I hear you.\n"],
     [kind |-> "no_choices", text |-> ""],
     [kind |-> "status", text |-> ""],
     [kind |-> "raised", text |-> ""]}

chat_with_gemini(messages, current_emotion, g) ==
    IF ~gemini_key
    THEN [raised |-> TRUE, message |-> "", called |-> FALSE]
    ELSE IF g.kind = "ok" /\ Len(g.text) > 0
    THEN [raised |-> FALSE, message |-> strip(g.text), called |-> TRUE]
    ELSE [raised |-> TRUE, message |-> "", called |-> TRUE]

chat_with_openrouter(messages, current_emotion, o) ==
    IF ~openrouter_key
    THEN [raised |-> TRUE, message |-> "", called |-> FALSE]
    ELSE IF o.kind = "ok"
    THEN [raised |-> FALSE, message |-> strip(o.text), called |-> TRUE]
    ELSE [raised |-> TRUE, message |-> "", called |-> TRUE]

\* the canned responses of wellness_assistant
emotion_responses ==
    [sadness |-> "I understand you're going through a difficult time. It's okay to feel sad"
                 \o " - these feelings are valid. Would you like to talk about what's"
                 \o " bothering you? Sometimes sharing can help lighten the burden.",
     anger |-> "I can sense your frustration. It's natural to feel angry sometimes. Taking"
               \o " deep breaths can help. What's causing these feelings? Let's work through"
               \o " this together.",
     fear |-> "It sounds like you're feeling anxious or worried. That's completely"
              \o " understandable. Remember that you're not alone in this. What specific"
              \o " concerns are on your mind?",
     joy |-> "It's wonderful to hear that you're feeling positive! I'm glad you're in a good"
             \o " space. What's bringing you joy today?",
     neutral |-> "Thank you for sharing with me. I'm here to support you in whatever way I"
                 \o " can. How are you feeling right now, and is there anything specific"
                 \o " you'd like to talk about?"]

\* emotion_responses.get(current_emotion, emotion_responses["neutral"])
fallback_response(current_emotion) ==
    IF current_emotion \in DOMAIN emotion_responses
    THEN emotion_responses[current_emotion]
    ELSE emotion_responses["neutral"]

\* ai_model = request.ai_model or "gemini"
requested_model(ai_model) == IF ai_model \in {NoValue, ""} THEN "gemini" ELSE ai_model

\* "Try requested model first"; the variant tries Gemini whatever was requested
TryGeminiAlways(ai_model) == gemini_key
TryGemini(ai_model) == requested_model(ai_model) = "gemini" /\ gemini_key

\* POST /api/wellness-assistant: the response.  Each adapter call has its own
\* "except Exception", so the handler's outer one (status 500) has nothing
\* left to catch.
wellness_assistant_on(messages, current_emotion, ai_model, g, o) ==
    LET first == chat_with_gemini(messages, current_emotion, g)
        second == chat_with_openrouter(messages, current_emotion, o)
        tried1 == IF TryGemini(ai_model) THEN <<"gemini">> ELSE <<>>
        failed1 == IF TryGemini(ai_model) /\ first.raised THEN <<"gemini">> ELSE <<>>
    IN  IF TryGemini(ai_model) /\ ~first.raised
        THEN Chat("clean/wellness-assistant", messages, current_emotion, ai_model, 200,
                  first.message, "gemini-2.0-flash-exp", tried1, failed1)
        ELSE IF openrouter_key /\ ~second.raised
        THEN Chat("clean/wellness-assistant", messages, current_emotion, ai_model, 200,
                  second.message, "qwen/qwen2.5-72b-instruct", tried1 \o <<"openrouter">>,
                  failed1)
        ELSE Chat("clean/wellness-assistant", messages, current_emotion, ai_model, 200,
                  fallback_response(current_emotion), "fallback-response",
                  tried1 \o (IF openrouter_key THEN <<"openrouter">> ELSE <<>>),
                  failed1 \o (IF openrouter_key THEN <<"openrouter">> ELSE <<>>))

wellness_assistant(messages, current_emotion, ai_model, g, o) ==
    /\ resp' = wellness_assistant_on(messages, current_emotion, ai_model, g, o)
    /\ UNCHANGED <<now, cleanVars, mainVars>>

(***************************************************************************)
(* SpecChat: the wellness assistant of app_new_clean.py under every        *)
(* configuration of the two chat keys and every answer of the two APIs.    *)
(***************************************************************************)
ChatMessages ==
    {<<>>,
     <<[role |-> "user", content |-> "Hello"]>>,
     <<[role |-> "user", content |-> "I've been feeling down lately"],
       [role |-> "assistant",
        content |-> "I understand that you're going through a difficult time."],
       [role |-> "user", content |-> "What can I do to feel better?"]>>}

ChatEmotions == {NoValue, "joy", "bored"}

ChatModels == {"gemini", "openrouter", "invalid_model", "", NoValue}

InitChat ==
    /\ now = 0
    /\ hf_key = TRUE
    /\ gemini_key \in BOOLEAN
    /\ openrouter_key \in BOOLEAN
    /\ in_flight = NoRequests
    /\ rate_limit_cache = [c \in Clients |-> <<>>]
    /\ MainIdle
    /\ resp = NoResp

WellnessChat ==
    \E messages \in ChatMessages, current_emotion \in ChatEmotions, ai_model \in ChatModels,
       g \in GeminiOutcomes, o \in OpenRouterOutcomes :
        wellness_assistant(messages, current_emotion, ai_model, g, o)

NextChat == WellnessChat

SpecChat == InitChat /\ [][NextChat]_vars

(***************************************************************************)
(* SpecConc: detection requests of one client served concurrently by the   *)
(* event loop of app_new_clean.py.  A handler runs without interruption    *)
(* from one await to the next: detect_emotion has a single await, the call *)
(* of detect_emotion_huggingface, and check_rate_limit has none.  The      *)
(* requests suspended at the await resume in any order.                    *)
(***************************************************************************)
\* a request is received; its handler runs when the event loop picks it
receive_request ==
    /\ in_flight.queued < MaxQueued
    /\ in_flight' = [in_flight EXCEPT !.queued = @ + 1]
    /\ UNCHANGED <<now, hf_key, rate_limit_cache, gemini_key, openrouter_key, mainVars, resp>>

\* detect_emotion from its start to the await: the admission check, then the
\* 429 or the suspension at the call of the API
detect_emotion_begin(client_ip, text) ==
    LET rl == check_rate_limit(client_ip)
    IN  /\ in_flight.queued > 0
        /\ rl.admit => Len(in_flight.awaiting) < MaxInFlight
        /\ rate_limit_cache' = rl.cache
        /\ in_flight' = [queued |-> in_flight.queued - 1,
                         awaiting |-> IF rl.admit THEN Append(in_flight.awaiting, now)
                                      ELSE in_flight.awaiting]
        /\ resp' = IF rl.admit THEN resp ELSE Throttled(client_ip, text)
        /\ UNCHANGED <<now, hf_key, gemini_key, openrouter_key, mainVars>>

\* detect_emotion from the await to its end, for the i-th suspended request
detect_emotion_resume(client_ip, text, outcome, i) ==
    LET r == detect_emotion_huggingface(text, outcome)
    IN  /\ i \in 1..Len(in_flight.awaiting)
        /\ in_flight' = [in_flight EXCEPT
                            !.awaiting = SubSeq(@, 1, i - 1) \o SubSeq(@, i + 1, Len(@))]
        /\ resp' = IF r.raised
                   THEN Response("clean/detect-emotion", client_ip, text, "", outcome.kind,
                                 r.status_code, <<>>, r.posts, "yes", "error")
                   ELSE Response("clean/detect-emotion", client_ip, text, "", outcome.kind,
                                 200, <<WithText(r.result, text)>>, r.posts, "yes", "computed")
        /\ UNCHANGED <<now, hf_key, rate_limit_cache, gemini_key, openrouter_key, mainVars>>

InitConc ==
    /\ now = 0
    /\ hf_key = TRUE
    /\ gemini_key = FALSE
    /\ openrouter_key = FALSE
    /\ in_flight = NoRequests
    /\ rate_limit_cache = [c \in Clients |-> <<>>]
    /\ MainIdle
    /\ resp = NoResp

TickConc == Tick({RATE_LIMIT_WINDOW - 1, RATE_LIMIT_WINDOW}, MaxTimeConc)

BeginConc == \E client_ip \in Clients : detect_emotion_begin(client_ip, "I am happy")

ResumeConc ==
    \E client_ip \in Clients, i \in 1..Len(in_flight.awaiting),
       outcome \in {o \in HFOutcomes : o.kind = "timeout"} :
        detect_emotion_resume(client_ip, "I am happy", outcome, i)

NextConc == TickConc \/ receive_request \/ BeginConc \/ ResumeConc

SpecConc == InitConc /\ [][NextConc]_vars

(***************************************************************************)
(* Properties of the proxy of app_new_clean.py (SpecClean, SpecRate).      *)
(***************************************************************************)
\* the EmotionLabel enumeration: the closed set of emotions
EmotionLabels == {"joy", "sadness", "anger", "fear", "surprise", "neutral", "love"}

\* the admitted calls of a client that are younger than the window
LiveCalls(client_ip) ==
    Cardinality({i \in 1..Len(rate_limit_cache[client_ip]) :
                    now - rate_limit_cache[client_ip][i] < RATE_LIMIT_WINDOW})

\* a step that serves a detection request of the client
DetectStepOf(client_ip) ==
    /\ resp'.endpoint = "clean/detect-emotion"
    /\ resp'.client = client_ip
    /\ (resp' # resp \/ rate_limit_cache' # rate_limit_cache)

\* the request was admitted and the external classifier then failed
AdapterFailed ==
    /\ resp.endpoint = "clean/detect-emotion"
    /\ resp.admitted = "yes"
    /\ (~hf_key \/ resp.adapter \in {"empty", "status", "timeout", "error"})

\* C1: a detection request whose external classifier is unavailable, times
\* out, answers with an error status or answers malformed is still answered
\* with success, by a result of the rule-based fallback.
C1_FailureStillSucceeds ==
    AdapterFailed =>
        /\ resp.status = 200
        /\ Len(resp.body) = 1
        /\ resp.body[1].model_used = "rule-based"
        /\ resp.body[1].emotion \in EmotionLabels

\* C2: a detection request is admitted exactly when fewer than 30 admitted
\* calls of its client are younger than 60 seconds, and an admitted request
\* counts as one more such call: 30 calls inside a window pass, the 31st is
\* refused, and a call is admitted again once the window has passed.
C2_SlidingWindow ==
    [][\A client_ip \in Clients :
          DetectStepOf(client_ip) =>
              IF LiveCalls(client_ip) < RATE_LIMIT_MAX_CALLS
              THEN /\ resp'.admitted = "yes"
                   /\ resp'.status # 429
                   /\ LiveCalls(client_ip)' = LiveCalls(client_ip) + 1
              ELSE /\ resp'.admitted = "no"
                   /\ resp'.status = 429
                   /\ LiveCalls(client_ip)' = LiveCalls(client_ip)]_vars

\* the 31st call is refused while the oldest of the 30 is 59 seconds old
C2_Refused31st ==
    /\ resp.endpoint = "clean/detect-emotion"
    /\ resp.status = 429
    /\ Len(rate_limit_cache[resp.client]) = RATE_LIMIT_MAX_CALLS
    /\ now - rate_limit_cache[resp.client][1] = RATE_LIMIT_WINDOW - 1

\* C3: the admission check comes first: a detection request of a client whose
\* window is full is answered 429, with no result in place of the refusal,
\* no call of the external classifier and no cache touched, whatever the
\* state of the classifier.
C3_RefusalIs429 ==
    [][\A client_ip \in Clients :
          (DetectStepOf(client_ip) /\ LiveCalls(client_ip) >= RATE_LIMIT_MAX_CALLS) =>
              /\ resp'.status = 429
              /\ resp'.body = <<>>
              /\ resp'.calls = 0
              /\ emotion_cache' = emotion_cache]_vars

\* a request refused although the classifier could not have answered anyway
C3_RefusedFirst ==
    /\ resp.endpoint = "clean/detect-emotion"
    /\ resp.served = "throttled"
    /\ resp.status = 429
    /\ ~hf_key

\* C4: every call of the external classifier, from the single or the batch
\* endpoint, belongs to a request that the admission check admitted.
C4_CallsNeedAdmission == resp.calls > 0 => resp.admitted = "yes"

\* C5: the emotion of every result returned is one of the seven emotions of
\* the closed set; a label outside it is mapped, never passed on.
C5_ClosedSet ==
    \A i \in 1..Len(resp.body) : resp.body[i].emotion \in EmotionLabels

(***************************************************************************)
(* Properties of the service of main.py (SpecMain, SpecFill).              *)
(***************************************************************************)
\* C6: a text shorter than 3 characters once trimmed gets neutral with a
\* confidence of exactly 0.5.
C6_ShortTextIsHalf ==
    (resp.endpoint = "main/detect-emotion" /\ Len(strip(resp.text)) < 3) =>
        /\ resp.status = 200
        /\ resp.body[1].emotion = "neutral"
        /\ resp.body[1].confidence = 500

\* C7: every result tagged "rule-based", the one of the short-text exit
\* included, has a confidence between 0 and 0.95, and never 1.0.
C7_RuleBasedCapped ==
    \A i \in 1..Len(resp.body) :
        resp.body[i].model_used = "rule-based" =>
            /\ 0 <= resp.body[i].confidence
            /\ resp.body[i].confidence <= 950
            /\ resp.body[i].confidence # 1000

\* when the entry was inserted: its expiry time less the time to live
InsertedAt(entry) == entry.expires - ttl

\* the cache key of the request answered by the step
KeyServed == strip(resp'.text) \o "_" \o resp'.pref

\* a step that serves a detection request of main.py
DetectMainStep ==
    /\ resp'.endpoint = "main/detect-emotion"
    /\ (resp' # resp \/ emotion_cache' # emotion_cache)

\* C9: right after a result is put under a key, a get of the key gives that
\* result; and a key whose entry was inserted more than 3600 seconds ago is
\* absent for the request that looks it up, removed from the store or not.
C9_CacheRoundTrip ==
    [][/\ (DetectMainStep /\ resp'.served = "computed") =>
              /\ CacheContains(emotion_cache', KeyServed, now')
              /\ CacheGetItem(emotion_cache', KeyServed).value = resp'.body[1]
       /\ \A i \in 1..Len(emotion_cache) :
              (/\ DetectMainStep
               /\ emotion_cache[i].key = KeyServed
               /\ now - InsertedAt(emotion_cache[i]) > ttl) => resp'.served # "cache"]_vars

\* a result was put, and an entry older than the time to live is still in
\* the store although the cache reports its key absent
C9_ExpiredStillStored ==
    /\ resp.endpoint = "main/detect-emotion"
    /\ resp.served = "computed"
    /\ \E i \in 1..Len(emotion_cache) :
          /\ now - InsertedAt(emotion_cache[i]) > ttl
          /\ ~CacheContains(emotion_cache, emotion_cache[i].key, now)

\* C10: the cache never holds more than 1000 entries: after n distinct keys
\* put one after the other it holds the last min(n, 1000) of them, all live,
\* so that the 1001st put evicts the key put first.
C10_BoundedCache ==
    /\ Len(emotion_cache) <= maxsize
    /\ \A n \in 1..MaxFill :
          resp.text = FillTexts[n] =>
              /\ Len(emotion_cache) = Min(n, maxsize)
              /\ \A i \in 1..Len(emotion_cache) :
                    /\ emotion_cache[i].key = FillKey(n - Len(emotion_cache) + i)
                    /\ now < emotion_cache[i].expires

\* 1001 distinct keys were put and the first of them is gone
C10_OldestEvicted ==
    /\ resp.text = FillTexts[maxsize + 1]
    /\ Len(emotion_cache) = maxsize
    /\ ~HasKey(emotion_cache, FillKey(1))
    /\ HasKey(emotion_cache, FillKey(2))

(***************************************************************************)
(* Properties of the rule-based classifiers (SpecRule).                    *)
(***************************************************************************)
RuleEndpoints == {"app/detect-emotion", "main/rule_based_emotion_detection"}

\* how many emotions of a score vector are above zero
NonZero(details) == Cardinality({e \in DOMAIN details : details[e] > 0})

EntryServed == emotion_cache[IndexOf(emotion_cache, KeyServed)]

\* a step that serves a detection request from the cache
HitStep ==
    /\ DetectMainStep
    /\ Len(strip(resp'.text)) >= 3
    /\ HasKey(emotion_cache, KeyServed)
    /\ now < EntryServed.expires

\* the entries of a cache, whatever their order
Entries(cache) == {cache[i] : i \in 1..Len(cache)}

\* C11: a request whose key is live in the cache is answered with exactly
\* the stored result, model_used included, with no classifier called and
\* no entry rewritten, whichever models are loaded by then.
C11_HitIsTransparent ==
    [][HitStep =>
          /\ resp'.status = 200
          /\ resp'.body = <<EntryServed.value>>
          /\ resp'.calls = 0
          /\ resp'.served = "cache"
          /\ Entries(emotion_cache') = Entries(emotion_cache)
          /\ Len(emotion_cache') = Len(emotion_cache)]_vars

\* a result computed by the rule-based fallback is served from the cache
\* while the classifier is loaded
C11_HitAfterLoading ==
    /\ resp.endpoint = "main/detect-emotion"
    /\ resp.served = "cache"
    /\ resp.body[1].model_used = "rule-based"
    /\ models.emotion_classifier

\* the results that a fresh classification of the text can give, whichever
\* models are loaded and whatever they answer
FreshResults(text) ==
    {Tagged(rule_based_emotion_detection(text), "rule-based")}
    \cup {UseClassifier(c).result[1] :
             c \in {x \in ClassifierOutcomes : Len(UseClassifier(x).result) > 0}}
    \cup {UseSentiment(x).result[1] : x \in {y \in SentimentOutcomes : y.kind = "ok"}}

\* C12: the cache key stands for the pair (trimmed text, model preference):
\* a request served from the cache gets a result that was stored for its
\* own text, hence one that a classification of its text can give.
C12_OwnResultOnly ==
    (resp.endpoint = "main/detect-emotion" /\ resp.served = "cache") =>
        resp.body[1] \in FreshResults(strip(resp.text))

\* the service has shut down and has served nothing since
AfterShutdown == resp.endpoint = "main/lifespan" /\ resp.text = "shutdown"

\* a refresh request was answered with success and nothing was served since
AfterRefresh == resp.endpoint = "main/refresh-cache" /\ resp.status = 200

\* C13 as stated: after the shutdown as after the administrative refresh the
\* emotion result cache holds no entries.
C13_BothClear == (AfterShutdown \/ AfterRefresh) => emotion_cache = <<>>

\* C13: the shutdown clears the emotion result cache, so that the detection
\* request that follows it is not served from the cache; the administrative
\* refresh removes the addressed entry of the message cache and leaves the
\* emotion result cache as it is.
C13_ShutdownClears ==
    [][/\ AfterShutdown' => emotion_cache' = <<>>
       /\ (AfterShutdown /\ DetectMainStep) => resp'.served # "cache"
       /\ (AfterRefresh' /\ (resp' # resp \/ message_cache' # message_cache)) =>
              /\ emotion_cache' = emotion_cache
              /\ MessageKey(resp'.pref, resp'.text) \notin DOMAIN message_cache']_vars

\* a refresh was answered with success while the emotion result cache holds
\* entries
C13_RefreshKeepsResults == AfterRefresh /\ emotion_cache # <<>>

(***************************************************************************)
(* Further properties of the detection endpoint of main.py (SpecMain).     *)
(***************************************************************************)
\* C14: an exception raised while classifying is caught at the endpoint and
\* answered with success and a best-effort result: the detection endpoint
\* never answers 500.
C14_NeverInternalError ==
    resp.endpoint = "main/detect-emotion" =>
        /\ resp.status # 500
        /\ Len(resp.body) = 1

(***************************************************************************)
(* Properties of the rate limiter with two clients (SpecPair).             *)
(***************************************************************************)
\* C15: the windows are independent per client: a detection request of one
\* client, admitted or refused, leaves the window of every other client and
\* the verdict of that client's next check as they were; a client with an
\* empty window is admitted.
C15_IndependentWindows ==
    [][\A a \in PairClients :
          DetectStepOf(a) =>
              /\ \A b \in PairClients \ {a} :
                    /\ rate_limit_cache'[b] = rate_limit_cache[b]
                    /\ check_rate_limit(b).admit' = check_rate_limit(b).admit
              /\ rate_limit_cache[a] = <<>> => resp'.admitted = "yes"]_vars

\* a client with no call yet is admitted while the other client is refused
C15_FreshClientAdmitted ==
    \E a \in PairClients, b \in PairClients :
        /\ resp.endpoint = "clean/detect-emotion"
        /\ resp.client = a
        /\ resp.admitted = "yes"
        /\ rate_limit_cache[a] = <<now>>
        /\ Len(rate_limit_cache[b]) = RATE_LIMIT_MAX_CALLS
        /\ ~check_rate_limit(b).admit

(***************************************************************************)
(* Properties of the batch endpoints (SpecBatch).                          *)
(***************************************************************************)
\* a batch request was served last
BatchServed == resp.endpoint \in {"main/batch-detect-emotion", "clean/batch-detect-emotion"}

\* C16: the batch endpoint caps its input at 50 texts: a batch of more than
\* 50 texts is answered with a 4xx error, no text classified and no adapter
\* called for it; a batch of at most 50 texts is answered with success and
\* one result per text.
C16_BatchCapped ==
    BatchServed =>
        IF Len(resp.text) > MaxBatchSize
        THEN resp.status \in 400..499 /\ resp.calls = 0 /\ resp.body = <<>>
        ELSE resp.status = 200 /\ Len(resp.body) = Len(resp.text)

(***************************************************************************)
(* Properties of the rule-based classifiers on named inputs (SpecRule).    *)
(***************************************************************************)
\* the answer of a rule-based endpoint to a text of the corpus
RuleResult(endpoint, text) ==
    IF endpoint = "app/detect-emotion" THEN AppResults[text] ELSE MainResults[text]

\* C17: "I am happy" is classified as joy, and "I am not happy" gets another
\* label or a lower confidence than it (the negation scales the joy score
\* down) and is not classified as sadness.
C17_NegationLowersJoy ==
    (resp.endpoint \in RuleEndpoints /\ resp.text = "I am not happy") =>
        LET plain == RuleResult(resp.endpoint, "I am happy")
            negated == resp.body[1]
        IN  /\ plain.emotion = "joy"
            /\ negated.emotion # "joy" \/ negated.confidence < plain.confidence
            /\ negated.emotion # "sadness"

\* the texts of test_emotion_detection that name one emotion with explicit
\* keywords, each with its expected_emotion
test_cases ==
    [text \in {"I'm feeling really happy and excited today!",
               "This makes me quite sad and disappointed.",
               "I'm angry about what happened today.",
               "I feel scared and worried about the future."} |->
        CASE text = "I'm feeling really happy and excited today!" -> "joy"
          [] text = "This makes me quite sad and disappointed." -> "sadness"
          [] text = "I'm angry about what happened today." -> "anger"
          [] OTHER -> "fear"]

\* C18: without the external adapter, "I'm feeling really happy and excited
\* today!" is answered with joy, a confidence above 0.5 and model_used
\* "rule-based", and each text that names one emotion with explicit keywords
\* is classified as that emotion.
C18_ExplicitKeywords ==
    (resp.endpoint \in RuleEndpoints /\ resp.text \in DOMAIN test_cases) =>
        /\ resp.status = 200
        /\ resp.body[1].emotion = test_cases[resp.text]
        /\ resp.body[1].model_used = "rule-based"
        /\ resp.text = "I'm feeling really happy and excited today!" =>
               resp.body[1].confidence > 500

(***************************************************************************)
(* Properties of the wellness assistant (SpecChat).                        *)
(***************************************************************************)
\* C19: a wellness request with an empty messages list is answered with an
\* error status, and neither Gemini nor OpenRouter is called for it.
C19_EmptyRejected ==
    (resp.endpoint = "clean/wellness-assistant" /\ Len(resp.messages) = 0) =>
        /\ resp.status >= 400
        /\ resp.attempted = <<>>

\* the contract of a served wellness request with at least one message, given
\* whether the request asks for Gemini: status 200; Gemini is attempted,
\* first, exactly when it is asked for and its key is configured; OpenRouter
\* is attempted next exactly when its key is configured and Gemini did not
\* answer; the answer is the canned response for current_emotion (the neutral
\* one for an absent or unknown emotion) with model_used "fallback-response"
\* exactly when every attempted adapter failed
ChatContract(asks_gemini) ==
    LET gemini == asks_gemini /\ gemini_key
        answered == gemini /\ resp.failed = <<>>
    IN  /\ resp.status = 200
        /\ resp.attempted =
               (IF gemini THEN <<"gemini">> ELSE <<>>)
                   \o (IF openrouter_key /\ ~answered THEN <<"openrouter">> ELSE <<>>)
        /\ answered => resp.model_used = "gemini-2.0-flash-exp"
        /\ (resp.failed = resp.attempted) <=> (resp.model_used = "fallback-response")
        /\ resp.model_used = "fallback-response" =>
               resp.message =
                   IF resp.current_emotion \in {"sadness", "anger", "fear", "joy"}
                   THEN emotion_responses[resp.current_emotion]
                   ELSE emotion_responses["neutral"]

\* C20 as stated: a wellness request with at least one message and any
\* ai_model always completes with status 200, Gemini being attempted first
\* only when ai_model is "gemini" and its key is configured, OpenRouter next
\* when its key is configured, the canned response for current_emotion being
\* returned when every attempted adapter failed.
C20_GeminiOnlyWhenNamed ==
    (resp.endpoint = "clean/wellness-assistant" /\ Len(resp.messages) >= 1) =>
        ChatContract(resp.ai_model = "gemini")

\* C20: the same, Gemini being attempted first when ai_model is "gemini" or
\* is empty or null (the handler then takes "gemini" for it).
C20_ChatAlwaysAnswers ==
    (resp.endpoint = "clean/wellness-assistant" /\ Len(resp.messages) >= 1) =>
        ChatContract(resp.ai_model \in {"gemini", "", NoValue})

\* a request with an empty ai_model and an unknown emotion was answered with
\* the neutral canned response after Gemini, then OpenRouter, had failed
C20_EmptyModelTriesGemini ==
    /\ resp.endpoint = "clean/wellness-assistant"
    /\ Len(resp.messages) >= 1
    /\ resp.ai_model = ""
    /\ resp.status = 200
    /\ resp.attempted = <<"gemini", "openrouter">>
    /\ resp.failed = <<"gemini", "openrouter">>
    /\ resp.model_used = "fallback-response"
    /\ resp.current_emotion = "bored"
    /\ resp.message = emotion_responses["neutral"]

DeclaredAt(emotion) == CHOOSE i \in 1..Len(EmotionOrderApp) : EmotionOrderApp[i] = emotion

\* C22: among the labels tied at the maximum score the rule-based classifier
\* returns the one declared first (a tie between surprise and love yields
\* surprise).
C22_TieByDeclarationOrder ==
    (resp.endpoint \in RuleEndpoints /\ resp.body[1].details # <<>>) =>
        LET scores == resp.body[1].details
        IN  /\ scores[resp.body[1].emotion] = MaxValue(scores)
            /\ \A other \in DOMAIN scores :
                  scores[other] = MaxValue(scores) =>
                      DeclaredAt(resp.body[1].emotion) <= DeclaredAt(other)

(***************************************************************************)
(* Further properties of the rate limiter (SpecRate).                      *)
(***************************************************************************)
\* the timestamps of a window that are younger than age / not older than age
YoungerThan(window, age) == SelectSeq(window, LAMBDA timestamp : now - timestamp < age)
NotOlderThan(window, age) == SelectSeq(window, LAMBDA timestamp : now - timestamp <= age)

\* what a check leaves of the window, given the timestamps that survive it
CheckLeaves(client_ip, kept) ==
    /\ resp'.admitted = "no" <=> Len(kept) >= RATE_LIMIT_MAX_CALLS
    /\ rate_limit_cache'[client_ip] =
           IF resp'.admitted = "yes" THEN Append(kept, now) ELSE kept

\* C23 as stated: a check prunes exactly the timestamps older than 60
\* seconds: a timestamp of age exactly 60 seconds stays in the window and
\* counts towards the limit of 30.
C23_SixtyStillCounts ==
    [][\A client_ip \in Clients :
          DetectStepOf(client_ip) =>
              CheckLeaves(client_ip,
                          NotOlderThan(rate_limit_cache[client_ip], RATE_LIMIT_WINDOW))]_vars

\* C23: a check prunes exactly the timestamps whose age is 60 seconds or
\* more: a timestamp of age exactly 60 seconds is removed and no longer
\* counts, a younger one stays and counts towards the limit of 30.
C23_SixtyIsPruned ==
    [][\A client_ip \in Clients :
          DetectStepOf(client_ip) =>
              CheckLeaves(client_ip,
                          YoungerThan(rate_limit_cache[client_ip], RATE_LIMIT_WINDOW))]_vars

\* a client was refused, its 30 calls are now exactly 60 seconds old, and
\* the check admits it and leaves none of them in the window
C23_AdmittedAtSixty ==
    \E client_ip \in Clients :
        /\ resp.endpoint = "clean/detect-emotion"
        /\ resp.client = client_ip
        /\ resp.status = 429
        /\ Len(rate_limit_cache[client_ip]) = RATE_LIMIT_MAX_CALLS
        /\ \A i \in 1..RATE_LIMIT_MAX_CALLS :
              now - rate_limit_cache[client_ip][i] = RATE_LIMIT_WINDOW
        /\ check_rate_limit(client_ip).admit
        /\ check_rate_limit(client_ip).cache[client_ip] = <<now>>

(***************************************************************************)
(* The keyword matching of main.py (SpecRule).                             *)
(***************************************************************************)
\* how many keywords of the emotion occur in the text as whole words
WholeWordCount(text, emotion) ==
    Cardinality({i \in 1..Len(emotion_keywords[emotion]) :
                    WholeWord(emotion_keywords[emotion][i], lower(text))})

\* C24: a keyword adds to the score of its emotion exactly when it occurs in
\* the text as a whole word: not as a part of a longer word ("mad" in
\* "madrid"), and also when punctuation follows it ("happy!").
C24_WholeWordsOnly ==
    resp.endpoint = "main/rule_based_emotion_detection" =>
        \A emotion \in DOMAIN emotion_keywords :
            resp.body[1].details[emotion] =
                (IF emotion = "neutral" THEN 100 ELSE 0)
                    + 200 * WholeWordCount(resp.text, emotion)

(***************************************************************************)
(* The caching of fallback results by main.py (SpecMain).                  *)
(***************************************************************************)
\* the response served last was computed by the rule-based fallback
FallbackServed ==
    /\ resp.endpoint = "main/detect-emotion"
    /\ resp.served = "computed"
    /\ resp.body[1].model_used = "rule-based"

\* C25: a result computed by the rule-based fallback is put into the cache
\* like any other, and the identical request (same text and preference)
\* that follows it within the time to live is served that result from the
\* cache with no classifier called.
C25_FallbackIsCached ==
    [][FallbackServed =>
          /\ HasKey(emotion_cache, strip(resp.text) \o "_" \o resp.pref)
          /\ (/\ DetectMainStep
              /\ resp'.text = resp.text
              /\ resp'.pref = resp.pref
              /\ now - InsertedAt(EntryServed) < ttl) =>
                 /\ EntryServed.value = resp.body[1]
                 /\ resp'.served = "cache"
                 /\ resp'.body = resp.body
                 /\ resp'.calls = 0]_vars

\* a rule-based result put at time 0 is served from the cache one second
\* before it expires, the emotion classifier being loaded
C25_FallbackHitBeforeExpiry ==
    /\ resp.endpoint = "main/detect-emotion"
    /\ resp.served = "cache"
    /\ resp.calls = 0
    /\ resp.body[1].model_used = "rule-based"
    /\ TRANSFORMERS_AVAILABLE /\ models.emotion_classifier
    /\ now = ttl - 1
    /\ \E i \in 1..Len(emotion_cache) :
          /\ emotion_cache[i].key = strip(resp.text) \o "_" \o resp.pref
          /\ InsertedAt(emotion_cache[i]) = 0

\* C26: a refused check records nothing: it leaves in the window the
\* timestamps younger than 60 seconds that were there, and no entry for the
\* refused call; and a client that was refused is admitted by its next
\* request as soon as fewer than 30 of its admitted calls are younger than
\* 60 seconds, however recent its refused calls.
C26_RefusalRecordsNothing ==
    [][\A client_ip \in Clients :
          /\ (DetectStepOf(client_ip) /\ resp'.admitted = "no") =>
                 /\ rate_limit_cache'[client_ip] =
                        YoungerThan(rate_limit_cache[client_ip], RATE_LIMIT_WINDOW)
                 /\ Len(rate_limit_cache'[client_ip]) = RATE_LIMIT_MAX_CALLS
          /\ (/\ DetectStepOf(client_ip)
              /\ resp.client = client_ip
              /\ resp.status = 429
              /\ LiveCalls(client_ip) < RATE_LIMIT_MAX_CALLS) => resp'.admitted = "yes"]_vars

\* a client refused 59 seconds ago, when its 30th admitted call was made, is
\* admitted now that only that call is younger than 60 seconds
C26_AdmittedAfterRefusal ==
    \E client_ip \in Clients :
        /\ resp.endpoint = "clean/detect-emotion"
        /\ resp.client = client_ip
        /\ resp.status = 429
        /\ Len(rate_limit_cache[client_ip]) = RATE_LIMIT_MAX_CALLS
        /\ now - rate_limit_cache[client_ip][RATE_LIMIT_MAX_CALLS] = RATE_LIMIT_WINDOW - 1
        /\ LiveCalls(client_ip) = 1
        /\ check_rate_limit(client_ip).admit
        /\ Len(check_rate_limit(client_ip).cache[client_ip]) = 2

(***************************************************************************)
(* Properties of the rate limiter under concurrent requests (SpecConc).    *)
(***************************************************************************)
\* how often a timestamp occurs in a list
Occurrences(list, timestamp) == Cardinality({i \in 1..Len(list) : list[i] = timestamp})

\* C27: with requests of one client in flight and resuming in any order,
\* each admission acts on the window as the admissions before it left it: it
\* needs fewer than 30 calls younger than 60 seconds and adds exactly its
\* own; no step but the passing of time takes a call younger than 60 seconds
\* out of the window; so at most 30 calls of the client are admitted within
\* 60 seconds, and the call of every request in flight is in the window.
C27_AdmissionIsAtomic ==
    [][\A client_ip \in Clients :
          /\ LiveCalls(client_ip)' <= RATE_LIMIT_MAX_CALLS
          /\ now' = now => LiveCalls(client_ip)' \in {LiveCalls(client_ip),
                                                      LiveCalls(client_ip) + 1}
          /\ Len(in_flight'.awaiting) > Len(in_flight.awaiting) =>
                 /\ LiveCalls(client_ip) < RATE_LIMIT_MAX_CALLS
                 /\ LiveCalls(client_ip)' = LiveCalls(client_ip) + 1
          /\ \A i \in 1..Len(in_flight'.awaiting) :
                 now' - in_flight'.awaiting[i] < RATE_LIMIT_WINDOW =>
                     Occurrences(in_flight'.awaiting, in_flight'.awaiting[i])
                         <= Occurrences(rate_limit_cache'[client_ip],
                                        in_flight'.awaiting[i])]_vars

\* a request was refused while admitted requests of the same client made at
\* two different times are still in flight and 30 calls fill the window
C27_RefusedWhileInFlight ==
    \E client_ip \in Clients :
        /\ resp.endpoint = "clean/detect-emotion"
        /\ resp.client = client_ip
        /\ resp.status = 429
        /\ LiveCalls(client_ip) = RATE_LIMIT_MAX_CALLS
        /\ Len(in_flight.awaiting) >= 2
        /\ in_flight.awaiting[1] # in_flight.awaiting[Len(in_flight.awaiting)]
        /\ in_flight.queued > 0

RefreshStep ==
    /\ resp'.endpoint = "main/refresh-cache"
    /\ (resp' # resp \/ message_cache' # message_cache)

\* C29: a refresh request with an invalid emotion or message type is answered
\* 400 and leaves the message cache as it is; with a valid pair it is
\* answered with success, removes the entry of that pair and leaves every
\* other cached message unchanged.
C29_RefreshValidates ==
    [][RefreshStep =>
          IF resp'.text \notin MessageEmotions \/ resp'.pref \notin MessageTypes
          THEN /\ resp'.status = 400
               /\ message_cache' = message_cache
          ELSE /\ resp'.status = 200
               /\ DOMAIN message_cache' =
                      DOMAIN message_cache \ {MessageKey(resp'.pref, resp'.text)}
               /\ \A k \in DOMAIN message_cache' : message_cache'[k] = message_cache[k]]_vars

(***************************************************************************)
(* The window a check leaves (SpecRate).                                   *)
(***************************************************************************)
\* C30: right after a check the window of the client checked holds at most
\* 30 timestamps, in the order of their calls, each of them made within the
\* 60 seconds before the check, and each either a timestamp the window held
\* before or the time of this check if it was admitted.
C30_WindowAfterCheck ==
    [][\A client_ip \in Clients :
          DetectStepOf(client_ip) =>
              LET window == rate_limit_cache'[client_ip]
              IN  /\ Len(window) <= RATE_LIMIT_MAX_CALLS
                  /\ \A i \in 1..Len(window) :
                        /\ 0 <= now - window[i]
                        /\ now - window[i] <= RATE_LIMIT_WINDOW
                        /\ i > 1 => window[i - 1] <= window[i]
                        /\ Occurrences(window, window[i]) <=
                               Occurrences(rate_limit_cache[client_ip], window[i])
                                   + (IF window[i] = now /\ resp'.admitted = "yes"
                                      THEN 1 ELSE 0)]_vars

\* a check admitted the 30th call of a window whose oldest call is 59
\* seconds old
C30_FullWindowAfterCheck ==
    \E client_ip \in Clients :
        /\ resp.endpoint = "clean/detect-emotion"
        /\ resp.client = client_ip
        /\ resp.admitted = "yes"
        /\ Len(rate_limit_cache[client_ip]) = RATE_LIMIT_MAX_CALLS
        /\ rate_limit_cache[client_ip][RATE_LIMIT_MAX_CALLS] = now
        /\ now - rate_limit_cache[client_ip][1] = RATE_LIMIT_WINDOW - 1

====
